---- MODULE Spec2Model ----
(***************************************************************************)
(* The reader of lust-syntax: read (lexing loop, fail-fast on lex faults,  *)
(* grammar stage), the sexpr_reader grammar with its ordered alternation,  *)
(* and the Display implementations of the syntax tree.                     *)
(*                                                                         *)
(* A source text is a sequence of lexemes (one per token, unscannable      *)
(* range or blank); spans are byte ranges [start, end) computed from the   *)
(* lexemes' lengths.  Tree nodes are records; a Sexpr is                   *)
(*   [kind |-> "Atom", atom |-> Atom, span |-> Span]  or                   *)
(*   [kind |-> K, items |-> <<Sexpr, ...>>, span |-> Span]                 *)
(* with K = "List" for what lust-syntax/src/read/mod.rs builds and         *)
(* K in {"SynList", "DataList", "Vector"} for the variants declared in     *)
(* lust-syntax/src/read/sexpr.rs.                                          *)
(***************************************************************************)
EXTENDS Integers, Sequences, FiniteSets, TLC

VARIABLES src, k, tokens, errs, pc, out, parsed, tree

vars == <<src, k, tokens, errs, pc, out, parsed, tree>>

\* ------------------------------------------------------------------ bounds

\* Longest source text (in lexemes) enumerated exhaustively.
MaxLen == 3

\* Largest syntax tree (in nodes) handed to Display.
MaxNodes == 4

\* ---------------------------------------------------------------- lexemes

P(kd) == [kind |-> kd, val |-> ""]

Id(n) == [kind |-> "Ident", val |-> n]

IntL(n) == [kind |-> "Int", val |-> n]

Sp == P("Space")

Bad == P("Bad")

NameLen(n) ==
  CASE n = "quote" -> 5
    [] n = "quasiquote" -> 10
    [] n = "unquote" -> 7
    [] n = "unquote-splicing" -> 16
    [] n = "varg" -> 4
    [] n = "list" -> 4
    [] OTHER -> 1

\* Byte length of a lexeme's text.
LexemeLen(x) ==
  CASE x.kind = "HashLBrack" -> 2
    [] x.kind = "CommaAt" -> 2
    [] x.kind = "Ellipsis" -> 3
    [] x.kind = "Ident" -> NameLen(x.val)
    [] OTHER -> 1

RECURSIVE Offset(_, _)
\* Byte offset at which lexeme i of the text starts.
Offset(text, i) ==
  IF i <= 1 THEN 0 ELSE Offset(text, i - 1) + LexemeLen(text[i - 1])

\* src.len()
SrcLen(text) == Offset(text, Len(text) + 1)

Span(s, e) == [start |-> s, end |-> e]

\* Token::lexer(src).spanned(): one (result, span) pair per token or
\* unscannable range, in source order; blanks carry no token.
Lexer(text) ==
  LET all == [i \in 1..Len(text) |->
                [res  |-> IF text[i].kind = "Bad" THEN "Err" ELSE "Ok",
                 tok  |-> text[i],
                 span |-> Span(Offset(text, i),
                               Offset(text, i) + LexemeLen(text[i]))]]
  IN SelectSeq(all, LAMBDA x : x.tok.kind # "Space")

\* ------------------------------------------------------------- tree model

\* Atom::new
Atom(kd, span) == kd @@ [span |-> span]

Sym(n) == [kind |-> "Sym", name |-> n]

Path(ns) == [kind |-> "Path", names |-> ns]

Lit(kd, v) == [kind |-> "Lit", lit |-> kd, val |-> v]

\* Sexpr::new(SexprKind::Atom(a), span)
SexprAtom(a, span) == [kind |-> "Atom", atom |-> a, span |-> span]

\* Sexpr::new(SexprKind::List(items), span)
SexprList(items, span) == [kind |-> "List", items |-> items, span |-> span]

\* Root::new
Root(sexprs, span) == [present |-> TRUE, sexprs |-> sexprs, span |-> span]

NoRoot == [present |-> FALSE]

LexError(span) == [kind |-> "LexError", span |-> span]

ParseError == [kind |-> "ParseError"]

\* ------------------------------------------------------ parser primitives

Fail == [ok |-> FALSE]

Ok(v, n) == [ok |-> TRUE, val |-> v, next |-> n]

\* just(Token::X)
just(kd, toks, i) ==
  IF i <= Len(toks) /\ toks[i].tok.kind = kd THEN Ok(toks[i].span, i + 1) ELSE Fail

\* The span map_with_span hands to its closure for the tokens i..j-1; the
\* end-of-input span is [len, len).
SpanOf(toks, eoi, i, j) ==
  IF j > i THEN Span(toks[i].span.start, toks[j - 1].span.end)
  ELSE IF i <= Len(toks) THEN Span(toks[i].span.start, toks[i].span.start)
  ELSE Span(eoi, eoi)

ident_reader(toks, i) ==
  IF i <= Len(toks) /\ toks[i].tok.kind = "Ident"
  THEN Ok(toks[i].tok.val, i + 1) ELSE Fail

LitKinds == {"Int", "Real", "Rational", "Bool", "String"}

lit_reader(toks, i) ==
  IF i <= Len(toks) /\ toks[i].tok.kind \in LitKinds
  THEN Ok([lit |-> toks[i].tok.kind, val |-> toks[i].tok.val], i + 1) ELSE Fail

\* The single element of a singleton set.  Writing One({e(r) : r \in {x}})
\* evaluates x once and names its value r.
One(S) == CHOOSE v \in S : TRUE

RECURSIVE PathTail(_, _)
\* just(Token::Period).ignore_then(ident_reader()).repeated()
PathTail(toks, i) ==
  LET p == just("Period", toks, i)
      n == IF p.ok THEN ident_reader(toks, p.next) ELSE Fail
  IN IF n.ok
     THEN One({[items |-> <<n.val>> \o r.items, next |-> r.next] :
               r \in {PathTail(toks, n.next)}})
     ELSE [items |-> <<>>, next |-> i]

\* path without at_least(1).
path_AtLeast0(toks, i) ==
  LET lhs == ident_reader(toks, i)
  IN IF lhs.ok
     THEN One({Ok(Path(<<lhs.val>> \o rhs.items), rhs.next) :
               rhs \in {PathTail(toks, lhs.next)}})
     ELSE Fail

\* ident_reader().then(<PathTail>.at_least(1).collect()).map(..).map(AtomKind::Path)
path(toks, i) ==
  LET lhs == ident_reader(toks, i)
  IN IF lhs.ok
     THEN One({IF Len(rhs.items) >= 1
               THEN Ok(Path(<<lhs.val>> \o rhs.items), rhs.next) ELSE Fail :
               rhs \in {PathTail(toks, lhs.next)}})
     ELSE Fail

\* path.or(ident_reader().map(AtomKind::Sym)).or(lit_reader().map(AtomKind::Lit))
AtomKindAt(toks, i) ==
  LET s == ident_reader(toks, i)
      l == lit_reader(toks, i)
  IN One({IF p.ok THEN p
          ELSE IF s.ok THEN Ok(Sym(s.val), s.next)
          ELSE IF l.ok THEN Ok(Lit(l.val.lit, l.val.val), l.next)
          ELSE Fail : p \in {path(toks, i)}})

\* <AtomKindAt>.map_with_span(Atom::new).map(SexprKind::Atom).map_with_span(Sexpr::new)
atom(toks, eoi, i) ==
  One({IF r.ok
       THEN Ok(SexprAtom(Atom(r.val, SpanOf(toks, eoi, i, r.next)),
                         SpanOf(toks, eoi, i, r.next)), r.next)
       ELSE Fail : r \in {AtomKindAt(toks, i)}})

\* ident_reader().then_ignore(just(Token::Ellipsis)).map_with_span(..)
\*   .map_with_span(Sexpr::new): (varg name), every node with the whole span.
variadic(toks, eoi, i) ==
  LET n == ident_reader(toks, i)
      e == IF n.ok THEN just("Ellipsis", toks, n.next) ELSE Fail
      sp == SpanOf(toks, eoi, i, e.next)
  IN IF e.ok
     THEN Ok(SexprList(<<SexprAtom(Atom(Sym("varg"), sp), sp),
                         SexprAtom(Atom(Sym(n.val), sp), sp)>>, sp), e.next)
     ELSE Fail

\* The stream position at which a failing variadic attempt stands:
\* ident_reader() has taken the identifier before just(Token::Ellipsis) is
\* tried.
VariadicStop(toks, i) ==
  LET n == ident_reader(toks, i) IN IF n.ok THEN n.next ELSE i

\* The stream position at which a failing path attempt stands: past the
\* identifier; the Period of a failed repetition item has been given back
\* by repeated().
PathStop(toks, i) ==
  LET lhs == ident_reader(toks, i)
  IN IF lhs.ok THEN PathTail(toks, lhs.next).next ELSE i

RECURSIVE sexpr_reader(_, _, _)

RECURSIVE Repeated(_, _, _)
\* sexpr.repeated().collect(): items are taken while sexpr succeeds; a failed
\* attempt is rewound and ends the repetition.
Repeated(toks, eoi, i) ==
  One({IF r.ok
       THEN One({[items |-> <<r.val>> \o rest.items, next |-> rest.next] :
                 rest \in {Repeated(toks, eoi, r.next)}})
       ELSE [items |-> <<>>, next |-> i] :
       r \in {sexpr_reader(toks, eoi, i)}})

\* sexpr.repeated().at_least(1).collect().map(List::from).map(SexprKind::List)
\*   .map_with_span(Sexpr::new).delimited_by(just(LParen), just(RParen))
\* map_with_span is applied to the repetition, inside the delimiters.
list(toks, eoi, i) ==
  LET o == just("LParen", toks, i)
  IN IF o.ok
     THEN One({IF Len(m.items) >= 1 /\ just("RParen", toks, m.next).ok
               THEN Ok(SexprList(m.items, SpanOf(toks, eoi, o.next, m.next)),
                       m.next + 1)
               ELSE Fail : m \in {Repeated(toks, eoi, o.next)}})
     ELSE Fail

\* The closure of list_lit: the symbol `list` is pushed in front of the
\* children; its atom has the zero-width span at the children's start and
\* its Sexpr the children's span.
ListLitItems(items, sp) ==
  <<SexprAtom(Atom(Sym("list"), Span(sp.start, sp.start)), sp)>> \o items

list_lit(toks, eoi, i) ==
  LET o == just("LBrack", toks, i)
  IN IF o.ok
     THEN One({IF Len(m.items) >= 1 /\ just("RBrack", toks, m.next).ok
               THEN Ok(SexprList(ListLitItems(m.items,
                                              SpanOf(toks, eoi, o.next, m.next)),
                                 SpanOf(toks, eoi, o.next, m.next)),
                       m.next + 1)
               ELSE Fail : m \in {Repeated(toks, eoi, o.next)}})
     ELSE Fail

\* As list, without at_least(1) and with HashLBrack as the opening delimiter.
vector(toks, eoi, i) ==
  LET o == just("HashLBrack", toks, i)
  IN IF o.ok
     THEN One({IF just("RBrack", toks, m.next).ok
               THEN Ok(SexprList(m.items, SpanOf(toks, eoi, o.next, m.next)),
                       m.next + 1)
               ELSE Fail : m \in {Repeated(toks, eoi, o.next)}})
     ELSE Fail

\* MarkerSpan giving the zero-width span at the marker's start.
MarkerSpan_ZeroWidth(sp) == Span(sp.start, sp.start)

\* The span the head symbol of a quote-family form is given: the span that
\* just(marker).map_with_span(|_, span| span) yields.
MarkerSpan(sp) == sp

\* just(marker).map_with_span(|_, span| span).then(sexpr).map(..).map_with_span(Sexpr::new)
QuoteLike(marker, name, toks, eoi, i) ==
  LET m == just(marker, toks, i)
  IN IF m.ok
     THEN One({IF s.ok
               THEN Ok(SexprList(<<SexprAtom(Atom(Sym(name), MarkerSpan(m.val)),
                                             MarkerSpan(m.val)),
                                   s.val>>,
                                 SpanOf(toks, eoi, i, s.next)), s.next)
               ELSE Fail : s \in {sexpr_reader(toks, eoi, m.next)}})
     ELSE Fail

quote(toks, eoi, i) == QuoteLike("Quote", "quote", toks, eoi, i)

quasiquote(toks, eoi, i) == QuoteLike("Backquote", "quasiquote", toks, eoi, i)

unquote(toks, eoi, i) == QuoteLike("Comma", "unquote", toks, eoi, i)

\* unquote_splice with the head symbol of unquote.
unquote_splice_AsUnquote(toks, eoi, i) == QuoteLike("CommaAt", "unquote", toks, eoi, i)

unquote_splice(toks, eoi, i) == QuoteLike("CommaAt", "unquote-splicing", toks, eoi, i)

\* a.or(b): the first of the alternatives, in order, that succeeds.
FirstOk(alts) ==
  IF \E j \in 1..Len(alts) : alts[j].ok
  THEN alts[CHOOSE j \in 1..Len(alts) :
              alts[j].ok /\ \A l \in 1..(j - 1) : ~alts[l].ok]
  ELSE Fail

\* sexpr_reader with atom tried before variadic.
sexpr_reader_AtomFirst(toks, eoi, i) ==
  One({FirstOk(alts) :
       alts \in {<<atom(toks, eoi, i), variadic(toks, eoi, i),
                   list(toks, eoi, i), list_lit(toks, eoi, i),
                   vector(toks, eoi, i), quote(toks, eoi, i),
                   quasiquote(toks, eoi, i), unquote(toks, eoi, i),
                   unquote_splice(toks, eoi, i)>>}})

\* The alternation without the rewind: after variadic has failed, the
\* other alternatives start where it stopped.
sexpr_reader_NoRewind(toks, eoi, i) ==
  One({FirstOk(alts) :
       alts \in {<<variadic(toks, eoi, i),
                   list(toks, eoi, VariadicStop(toks, i)),
                   list_lit(toks, eoi, VariadicStop(toks, i)),
                   vector(toks, eoi, VariadicStop(toks, i)),
                   quote(toks, eoi, VariadicStop(toks, i)),
                   quasiquote(toks, eoi, VariadicStop(toks, i)),
                   unquote(toks, eoi, VariadicStop(toks, i)),
                   unquote_splice(toks, eoi, VariadicStop(toks, i)),
                   atom(toks, eoi, VariadicStop(toks, i))>>}})

\* variadic.or(list).or(list_lit).or(vector).or(quote).or(quasiquote)
\*   .or(unquote).or(unquote_splice).or(atom)
sexpr_reader(toks, eoi, i) ==
  One({FirstOk(alts) :
       alts \in {<<variadic(toks, eoi, i), list(toks, eoi, i),
                   list_lit(toks, eoi, i), vector(toks, eoi, i),
                   quote(toks, eoi, i), quasiquote(toks, eoi, i),
                   unquote(toks, eoi, i), unquote_splice(toks, eoi, i),
                   atom(toks, eoi, i)>>}})

RECURSIVE CallDepth(_, _, _)

RECURSIVE RepeatedDepth(_, _, _)
\* The deepest nesting of sexpr_reader activations that the repetition
\* started at token i enters: one attempt per item, the failing last attempt
\* included.
RepeatedDepth(toks, eoi, i) ==
  One({IF r.ok
       THEN One({IF d >= rest THEN d ELSE rest :
                 rest \in {RepeatedDepth(toks, eoi, r.next)}})
       ELSE d :
       r \in {sexpr_reader(toks, eoi, i)}, d \in {CallDepth(toks, eoi, i)}})

\* The deepest nesting of sexpr_reader activations reached by the attempt
\* at token i, that attempt counted: list, list_lit and vector enter the
\* repetition of sexpr once their opening delimiter is read, the quote
\* family enters sexpr once the marker is read, variadic and atom do not
\* enter sexpr.
CallDepth(toks, eoi, i) ==
  IF i > Len(toks) THEN 1
  ELSE IF toks[i].tok.kind \in {"LParen", "LBrack", "HashLBrack"}
       THEN 1 + RepeatedDepth(toks, eoi, i + 1)
  ELSE IF toks[i].tok.kind \in {"Quote", "Backquote", "Comma", "CommaAt"}
       THEN 1 + CallDepth(toks, eoi, i + 1)
  ELSE 1

\* sexpr_reader().repeated().collect().map_with_span(Root::new)
root_reader(toks, eoi, i) ==
  One({Ok(Root(m.items, SpanOf(toks, eoi, i, m.next)), m.next) :
       m \in {Repeated(toks, eoi, i)}})

\* ParseStage keeping the forms read before the fault beside the error.
ParseStage_Partial(toks, eoi) ==
  One({IF r.next > Len(toks)
       THEN [root |-> r.val, errs |-> <<>>]
       ELSE [root |-> r.val, errs |-> <<ParseError>>] :
       r \in {root_reader(toks, eoi, 1)}})

\* root_reader().parse(tok_stream).into_output_errors(), each error wrapped
\* as SyntaxError::ParseError.  parse succeeds only when the whole stream is
\* consumed; no production carries a recovery strategy, so a failure leaves
\* no output and one error.
ParseStage(toks, eoi) ==
  One({IF r.next > Len(toks)
       THEN [root |-> r.val, errs |-> <<>>]
       ELSE [root |-> NoRoot, errs |-> <<ParseError>>] :
       r \in {root_reader(toks, eoi, 1)}})

\* LexPush pushing Token::Error without recording the LexError.
LexPush_Unrecorded(st, item) ==
  IF item.res = "Ok"
  THEN [tokens |-> Append(st.tokens, [tok |-> item.tok, span |-> item.span]),
        errs   |-> st.errs]
  ELSE [tokens |-> Append(st.tokens, [tok |-> P("Error"), span |-> item.span]),
        errs   |-> st.errs]

\* Body of the lexing loop of read: Ok(tok) is pushed as a token, Err(_) is
\* recorded as a LexError and pushed as Token::Error.
LexPush(st, item) ==
  IF item.res = "Ok"
  THEN [tokens |-> Append(st.tokens, [tok |-> item.tok, span |-> item.span]),
        errs   |-> st.errs]
  ELSE [tokens |-> Append(st.tokens, [tok |-> P("Error"), span |-> item.span]),
        errs   |-> Append(st.errs, LexError(item.span))]

RECURSIVE LexLoop(_, _)
LexLoop(items, n) ==
  IF n = 0 THEN [tokens |-> <<>>, errs |-> <<>>]
  ELSE One({LexPush(st, items[n]) : st \in {LexLoop(items, n - 1)}})

\* read(src) as a function of the source text.
read(text) ==
  One({IF st.errs # <<>>
       THEN [root |-> NoRoot, errs |-> st.errs]
       ELSE ParseStage(st.tokens, SrcLen(text)) :
       st \in {One({LexLoop(items, Len(items)) : items \in {Lexer(text)}})}})

\* ---------------------------------------------------------------- Display

ZeroSpan == Span(0, 0)

\* Sexpr::new(SexprKind::SynList | DataList | Vector, span), the variants of
\* sexpr.rs.
SexprNode(kd, items) == [kind |-> kd, items |-> items, span |-> ZeroSpan]

\* impl Display for AtomKind / Lit: the symbol's or the literal's text.
DisplayAtom(a) ==
  IF a.kind = "Sym" THEN <<Id(a.name)>> ELSE <<[kind |-> a.lit, val |-> a.val]>>

RECURSIVE JoinSp(_)
\* The loop `if i != 0 { write!(f, " ") }; write!(f, "{}", s)`.
JoinSp(texts) ==
  IF texts = <<>> THEN <<>>
  ELSE IF Len(texts) = 1 THEN texts[1]
  ELSE texts[1] \o <<Sp>> \o JoinSp(Tail(texts))

\* impl Display for List<Sexpr> (lust_utils): the items between parentheses.
DisplayList(texts) == <<P("LParen")>> \o JoinSp(texts) \o <<P("RParen")>>

\* impl Display for DataList
DisplayDataList(texts) == <<P("LBrack")>> \o JoinSp(texts) \o <<P("RBrack")>>

\* The SexprKind::Vector arm of impl Display for SexprKind
DisplayVector(texts) == <<P("LBrack")>> \o JoinSp(texts) \o <<P("RBrack")>>

RECURSIVE Display(_)
\* impl Display for Sexpr / SexprKind
Display(t) ==
  IF t.kind = "Atom" THEN DisplayAtom(t.atom)
  ELSE LET texts == [j \in 1..Len(t.items) |-> Display(t.items[j])]
       IN CASE t.kind = "SynList" -> DisplayList(texts)
            [] t.kind = "DataList" -> DisplayDataList(texts)
            [] t.kind = "Vector" -> DisplayVector(texts)

\* ------------------------------------------------------------------ inputs

Alphabet ==
  {P("LParen"), P("RParen"), P("LBrack"), P("RBrack"), P("HashLBrack"),
   P("Quote"), P("Backquote"), P("Comma"), P("CommaAt"), P("Period"),
   P("Ellipsis"), Id("a"), IntL("1"), Bad, Sp}

Words == {"Ident", "Int", "Real", "Rational", "Bool", "String"}

Dots == {"Period", "Ellipsis"}

\* Two lexemes that cannot be adjacent in a text: their characters would
\* scan as one lexeme.
Glued(x, y) ==
  \/ x.kind \in Words /\ y.kind \in Words
  \/ x.kind \in Dots /\ y.kind \in Dots

Scannable(text) == \A j \in 1..(Len(text) - 1) : ~Glued(text[j], text[j + 1])

ShortTexts ==
  {t \in UNION {[1..n -> Alphabet] : n \in 0..MaxLen} : Scannable(t)}

Samples ==
  {<<P("Backquote"), P("LParen"), Id("a"), Sp, P("Comma"), Id("b"), Sp,
     P("CommaAt"), Id("c"), P("RParen")>>,
   <<P("LParen"), Id("quote"), Sp, Id("a"), P("RParen")>>,
   <<P("Quote"), P("LParen"), Id("a"), Sp, P("Quote"), Id("b"), P("RParen")>>,
   <<P("LParen"), Id("a"), Sp, P("CommaAt"), P("HashLBrack"), IntL("1"),
     P("RBrack"), P("RParen")>>,
   <<P("LParen"), IntL("1"), Sp, IntL("2"), Sp, IntL("3"), P("RParen")>>,
   <<P("LBrack"), IntL("1"), Sp, IntL("2"), Sp, IntL("3"), P("RBrack")>>,
   <<P("HashLBrack"), IntL("1"), Sp, IntL("2"), Sp, IntL("3"), P("RBrack")>>,
   <<P("LParen"), Id("list"), Sp, IntL("1"), Sp, IntL("2"), Sp, IntL("3"),
     P("RParen")>>,
   <<P("LParen"), IntL("1"), Sp, IntL("2"), Sp, IntL("3")>>,
   <<P("LParen"), IntL("1"), Sp, IntL("2"), P("RParen"), Sp, P("RParen"), Sp,
     IntL("3")>>,
   <<P("LParen"), P("RParen"), Sp, Id("a")>>,
   <<Id("a"), P("Period"), Id("b"), P("Period"), Id("c")>>,
   <<Id("a"), P("Period"), Id("b"), P("Period"), Id("c"), P("Period"), Id("d")>>,
   <<P("LParen"), Id("a"), P("Period"), Id("b"), Sp, Id("c"), P("Ellipsis"),
     P("RParen")>>,
   <<P("LParen"), Id("a"), Sp, Bad, Sp, Id("b"), Bad, P("RParen")>>,
   <<P("LParen"), [kind |-> "Real", val |-> "1.5"], Sp,
     [kind |-> "Rational", val |-> "1/2"], Sp, [kind |-> "Bool", val |-> "true"],
     Sp, [kind |-> "String", val |-> "s"], P("RParen")>>,
   <<P("HashLBrack"), P("LBrack"), Id("a"), P("RBrack"), Sp, P("LParen"),
     Id("b"), P("RParen"), Sp, P("HashLBrack"), P("RBrack"), P("RBrack")>>}

Inputs == ShortTexts \cup Samples

AtomTrees ==
  {SexprAtom(Atom(Sym("a"), ZeroSpan), ZeroSpan),
   SexprAtom(Atom(Sym("b"), ZeroSpan), ZeroSpan),
   SexprAtom(Atom(Lit("Int", "1"), ZeroSpan), ZeroSpan)}

RECURSIVE TreesOfSize(_)

RECURSIVE ForestsOfSize(_)
ForestsOfSize(n) ==
  IF n = 0 THEN {<<>>}
  ELSE UNION {{<<t>> \o f : t \in TreesOfSize(m), f \in ForestsOfSize(n - m)} :
              m \in 1..n}

\* The values of the Sexpr type of sexpr.rs with n nodes: SynList and
\* DataList with at least one child, Vector possibly empty.
TreesOfSize(n) ==
  IF n = 1 THEN AtomTrees \cup {SexprNode("Vector", <<>>)}
  ELSE {SexprNode(kd, f) : kd \in {"SynList", "DataList", "Vector"},
                           f \in ForestsOfSize(n - 1)}

Trees == UNION {TreesOfSize(n) : n \in 1..MaxNodes}

NoTree == [kind |-> "None"]

\* ----------------------------------------------------------- state machine

NoOut == [root |-> NoRoot, errs |-> <<>>]

\* Either read is about to be called on a source text, or a tree is about
\* to be printed and read back.
Init ==
  /\ k = 1
  /\ tokens = <<>>
  /\ errs = <<>>
  /\ out = NoOut
  /\ parsed = FALSE
  /\ \/ src \in Inputs /\ tree = NoTree /\ pc = "lex"
     \/ tree \in Trees /\ src = <<>> /\ pc = "render"

\* format!("{}", tree), handed to read as its source text.
Render ==
  /\ pc = "render"
  /\ src' = Display(tree)
  /\ pc' = "lex"
  /\ UNCHANGED <<k, tokens, errs, out, parsed, tree>>

\* ReadScan taking the same lexer item again instead of the next one.
ReadScan_NoAdvance ==
  /\ pc = "lex"
  /\ k <= Len(Lexer(src))
  /\ LET st == LexPush([tokens |-> tokens, errs |-> errs], Lexer(src)[k])
     IN tokens' = st.tokens /\ errs' = st.errs
  /\ UNCHANGED <<src, k, pc, out, parsed, tree>>

\* One iteration of `for (res, span) in Token::lexer(src).spanned()`.
ReadScan ==
  /\ pc = "lex"
  /\ k <= Len(Lexer(src))
  /\ LET st == LexPush([tokens |-> tokens, errs |-> errs], Lexer(src)[k])
     IN tokens' = st.tokens /\ errs' = st.errs
  /\ k' = k + 1
  /\ UNCHANGED <<src, pc, out, parsed, tree>>

\* `if !errs.is_empty() { return (None, errs); }`
ReadAbort ==
  /\ pc = "lex"
  /\ k > Len(Lexer(src))
  /\ errs # <<>>
  /\ out' = [root |-> NoRoot, errs |-> errs]
  /\ pc' = "done"
  /\ UNCHANGED <<src, k, tokens, errs, parsed, tree>>

\* The grammar stage of read and its return.
ReadParse ==
  /\ pc = "lex"
  /\ k > Len(Lexer(src))
  /\ errs = <<>>
  /\ out' = ParseStage(tokens, SrcLen(src))
  /\ parsed' = TRUE
  /\ pc' = "done"
  /\ UNCHANGED <<src, k, tokens, errs, tree>>

Next == Render \/ ReadScan \/ ReadAbort \/ ReadParse

Spec == Init /\ [][Next]_vars

\* ------------------------------------------------- vocabulary of the claims

Done == pc = "done"

\* read was called on a text given as such, not on a printed tree.
Direct == tree = NoTree

LexClean(text) == \A j \in 1..Len(text) : text[j].kind # "Bad"

RECURSIVE StripSpans(_)
\* A node without its span values.
StripSpans(n) ==
  IF n.kind = "Atom"
  THEN [kind |-> "Atom",
        atom |-> [f \in (DOMAIN n.atom) \ {"span"} |-> n.atom[f]]]
  ELSE [kind |-> n.kind,
        items |-> [j \in 1..Len(n.items) |-> StripSpans(n.items[j])]]

StripAll(sexprs) == [j \in 1..Len(sexprs) |-> StripSpans(sexprs[j])]

\* The variant of sexpr.rs a node stands for: mod.rs builds
\* SexprKind::List, taken to be the parenthesised-list variant SynList.
DeclaredKind(n) == IF n.kind = "List" THEN "SynList" ELSE n.kind

RECURSIVE Declared(_)
\* A node without its spans, its tags read as variants of sexpr.rs.
Declared(n) ==
  IF n.kind = "Atom" THEN StripSpans(n)
  ELSE [kind |-> DeclaredKind(n),
        items |-> [j \in 1..Len(n.items) |-> Declared(n.items[j])]]

RECURSIVE Nodes(_)
\* A node and all its descendants.
Nodes(n) ==
  IF n.kind = "Atom" THEN {n}
  ELSE {n} \cup UNION {Nodes(n.items[j]) : j \in 1..Len(n.items)}

TreeNodes(root) ==
  IF root.present THEN UNION {Nodes(root.sexprs[j]) : j \in 1..Len(root.sexprs)}
  ELSE {}

Within(inner, outer) == outer.start <= inner.start /\ inner.end <= outer.end

SubText(text, a, b) == [j \in 1..(b - a + 1) |-> text[a + j - 1]]

IsParseError(e) == e.kind = "ParseError"

\* ------------------------------------------------------------------ claims

\* The LexErrors the claim expects: one per unscannable range, in source
\* order, with that range's span.
ExpectedLexErrors(text) ==
  LET bad == SelectSeq(Lexer(text), LAMBDA x : x.res = "Err")
  IN [j \in 1..Len(bad) |-> LexError(bad[j].span)]

\* C1: when the lexer reports at least one unscannable range, read returns
\* no tree and exactly the LexErrors of those ranges, in source order, each
\* with its range's span, and no ParseError; the grammar stage is not run.
C1_LexFaultsAbort ==
  (Done /\ ~LexClean(src)) =>
    /\ ~out.root.present
    /\ out.errs = ExpectedLexErrors(src)
    /\ \A j \in 1..Len(out.errs) : out.errs[j].kind = "LexError"
    /\ ~parsed

C1_Witness ==
  /\ Done
  /\ Cardinality({j \in 1..Len(src) : src[j].kind = "Bad"}) = 2
  /\ \E j \in 1..Len(src) : src[j].kind = "Ident"
  /\ Len(out.errs) = 2
  /\ out.errs[1].span.end < out.errs[2].span.start

\* A lex-clean text made of a malformed part followed by one well-formed
\* top-level form, the text as a whole being malformed.
MalformedThenWellFormed(text) ==
  /\ LexClean(text)
  /\ read(text).errs # <<>>
  /\ \E j \in 1..(Len(text) - 1) :
       /\ read(SubText(text, 1, j)).errs # <<>>
       /\ LET w == read(SubText(text, j + 1, Len(text)))
          IN w.errs = <<>> /\ Len(w.root.sexprs) = 1

\* The well-formed trailing forms of a text (without spans).
TrailingForms(text) ==
  {StripSpans(read(SubText(text, j + 1, Len(text))).root.sexprs[1]) :
     j \in {l \in 1..(Len(text) - 1) :
              LET w == read(SubText(text, l + 1, Len(text)))
              IN w.errs = <<>> /\ Len(w.root.sexprs) = 1}}

Wrapped(open, body, close) == <<P(open)>> \o body \o <<P(close)>>

\* The texts that are a non-empty sequence of forms s1..sn.
IsForms(body) ==
  LET r == read(body) IN r.errs = <<>> /\ Len(r.root.sexprs) >= 1

\* What reading `open body close` gives, as a variant of sexpr.rs; NoTree
\* when it is not exactly one form read without error.
ReadOne(text) ==
  LET r == read(text)
  IN IF r.errs = <<>> /\ r.root.present /\ Len(r.root.sexprs) = 1
     THEN Declared(r.root.sexprs[1]) ELSE NoTree

\* The claimed result: a node tagged kd holding exactly the forms of body.
Tagged(kd, body) ==
  LET forms == read(body).root.sexprs
  IN [kind |-> kd, items |-> [j \in 1..Len(forms) |-> Declared(forms[j])]]

\* C3 as stated: for a non-empty sequence of forms s1..sn, `(s1..sn)` reads
\* as a SynList of exactly those n children, `[s1..sn]` as a DataList of
\* exactly those n children (no `list` symbol in front) and `#[s1..sn]` as a
\* Vector of exactly those n children, and no two of the three are equal.
C3_ThreeDistinctTags ==
  (Done /\ Direct /\ out.errs = <<>> /\ Len(src) >= 2) =>
    LET body == SubText(src, 2, Len(src) - 1)
    IN (src = Wrapped("LParen", body, "RParen") /\ IsForms(body)) =>
         /\ ReadOne(src) = Tagged("SynList", body)
         /\ ReadOne(Wrapped("LBrack", body, "RBrack")) = Tagged("DataList", body)
         /\ ReadOne(Wrapped("HashLBrack", body, "RBrack")) = Tagged("Vector", body)
         /\ ReadOne(src) # ReadOne(Wrapped("HashLBrack", body, "RBrack"))
         /\ ReadOne(src) # ReadOne(Wrapped("LBrack", body, "RBrack"))
         /\ ReadOne(Wrapped("LBrack", body, "RBrack"))
              # ReadOne(Wrapped("HashLBrack", body, "RBrack"))

\* C4 as stated: `#[]` reads without error as a Vector of zero children,
\* `()` and `[]` give a ParseError and no list node, and every SynList and
\* DataList of a returned tree has at least one child.
C4_EmptyForms ==
  (Done /\ Direct) =>
    /\ Lexer(src) = Lexer(<<P("HashLBrack"), P("RBrack")>>) =>
         /\ out.errs = <<>>
         /\ out.root.present
         /\ Len(out.root.sexprs) = 1
         /\ Declared(out.root.sexprs[1]) = [kind |-> "Vector", items |-> <<>>]
    /\ (\/ Lexer(src) = Lexer(<<P("LParen"), P("RParen")>>)
        \/ Lexer(src) = Lexer(<<P("LBrack"), P("RBrack")>>)) =>
         /\ out.errs = <<ParseError>>
         /\ ~out.root.present
    /\ \A n \in TreeNodes(out.root) :
         DeclaredKind(n) \in {"SynList", "DataList"} => Len(n.items) >= 1

\* Nodes without spans, for stating expected trees.
S(n) == [kind |-> "Atom", atom |-> Sym(n)]

L(items) == [kind |-> "List", items |-> items]

Markers == {"Quote", "Backquote", "Comma", "CommaAt"}

Openers == {"LParen", "LBrack", "HashLBrack"}

MarkerName(kd) ==
  CASE kd = "Quote" -> "quote"
    [] kd = "Backquote" -> "quasiquote"
    [] kd = "Comma" -> "unquote"
    [] kd = "CommaAt" -> "unquote-splicing"

\* Index in the text of its j-th token.
TextPos(text, j) ==
  CHOOSE p \in 1..Len(text) :
    /\ text[p].kind # "Space"
    /\ Cardinality({q \in 1..p : text[q].kind # "Space"}) = j

\* The text with the marker that is token i replaced by `(name ` and `)`
\* put after token e, the last token of the marked form.
Explicit(text, i, e) ==
  LET p == TextPos(text, i)
      q == TextPos(text, e)
  IN SubText(text, 1, p - 1)
       \o <<P("LParen"), Id(MarkerName(text[p].kind)), Sp>>
       \o SubText(text, p + 1, q) \o <<P("RParen")>>
       \o SubText(text, q + 1, Len(text))

SameModuloSpans(r1, r2) ==
  /\ r1.errs = r2.errs
  /\ r1.root.present = r2.root.present
  /\ r1.root.present => StripAll(r1.root.sexprs) = StripAll(r2.root.sexprs)

QuasiSample ==
  <<P("Backquote"), P("LParen"), Id("a"), Sp, P("Comma"), Id("b"), Sp,
    P("CommaAt"), Id("c"), P("RParen")>>

\* C5: for every marker ', `, `,` or `,@` in front of a readable form s,
\* at any nesting depth, reading the text gives the same result, modulo
\* spans, as reading it with `m s` written `(name s)`; and `(a ,b ,@c) reads
\* as (quasiquote (a (unquote b) (unquote-splicing c))).
C5_QuoteSugar ==
  (Done /\ Direct /\ LexClean(src)) =>
    /\ \A i \in 1..Len(tokens) :
         tokens[i].tok.kind \in Markers =>
           LET s == sexpr_reader(tokens, SrcLen(src), i + 1)
           IN s.ok => SameModuloSpans(out, read(Explicit(src, i, s.next - 1)))
    /\ src = QuasiSample =>
         /\ out.errs = <<>>
         /\ StripAll(out.root.sexprs) =
              <<L(<<S("quasiquote"),
                    L(<<S("a"), L(<<S("unquote"), S("b")>>),
                        L(<<S("unquote-splicing"), S("c")>>)>>)>>)>>

C5_Witness ==
  /\ Done
  /\ src = QuasiSample
  /\ out.root.present
  /\ Len(out.root.sexprs) = 1
  /\ SameModuloSpans(out, read(Explicit(src, 6, 7)))

FollowedBy(toks, i, kd) == i + 1 <= Len(toks) /\ toks[i + 1].tok.kind = kd

PathContinues(toks, i) ==
  /\ FollowedBy(toks, i, "Period")
  /\ FollowedBy(toks, i + 1, "Ident")

TokenKinds(toks) == [j \in 1..Len(toks) |-> toks[j].tok.kind]

RECURSIVE RunNames(_, _)
\* The names of the longest run id (. id)* that starts at token i.
RunNames(toks, i) ==
  IF PathContinues(toks, i)
  THEN <<toks[i].tok.val>> \o RunNames(toks, i + 2)
  ELSE <<toks[i].tok.val>>

\* C7: at a run id1 . id2 . ... . idn with n >= 2 the grammar reads exactly
\* one Atom of kind Path whose names are id1..idn in order, consuming the
\* whole run; at a single identifier (no `. identifier` and no ellipsis
\* after it) it reads kind Sym; no Path of a returned tree has fewer than
\* two names; such a run alone reads as that one Path.
C7_PathNeedsSeparator ==
  (Done /\ Direct /\ LexClean(src)) =>
    /\ \A i \in 1..Len(tokens) :
         tokens[i].tok.kind = "Ident" =>
           LET r == sexpr_reader(tokens, SrcLen(src), i)
               ns == RunNames(tokens, i)
           IN /\ Len(ns) >= 2 =>
                   /\ r.ok
                   /\ r.next = i + 2 * Len(ns) - 1
                   /\ StripSpans(r.val) = [kind |-> "Atom", atom |-> Path(ns)]
              /\ (Len(ns) = 1 /\ ~FollowedBy(tokens, i, "Ellipsis")) =>
                   /\ r.ok
                   /\ r.val.kind = "Atom"
                   /\ r.val.atom.kind = "Sym"
    /\ \A n \in TreeNodes(out.root) :
         (n.kind = "Atom" /\ n.atom.kind = "Path") => Len(n.atom.names) >= 2
    /\ (tokens # <<>> /\ tokens[1].tok.kind = "Ident"
          /\ Len(tokens) = 2 * Len(RunNames(tokens, 1)) - 1 /\ Len(tokens) >= 3) =>
         /\ out.errs = <<>>
         /\ StripAll(out.root.sexprs) =
              <<[kind |-> "Atom", atom |-> Path(RunNames(tokens, 1))]>>

C7_Witness ==
  /\ Done
  /\ out.errs = <<>>
  /\ Len(out.root.sexprs) = 1
  /\ out.root.sexprs[1].kind = "Atom"
  /\ out.root.sexprs[1].atom.kind = "Path"
  /\ out.root.sexprs[1].atom.names = <<"a", "b", "c", "d">>

\* C8 as stated: in a returned tree every node's span contains the spans
\* of its children, and the node read at an opening delimiter or at a
\* quote-family marker has a span that contains that token's span and, for
\* a delimited form, the span of its closing delimiter.
C8_SpanCoversSyntax ==
  (Done /\ Direct /\ out.errs = <<>> /\ out.root.present) =>
    /\ \A n \in TreeNodes(out.root) :
         n.kind # "Atom" =>
           \A j \in 1..Len(n.items) : Within(n.items[j].span, n.span)
    /\ \A i \in 1..Len(tokens) :
         tokens[i].tok.kind \in (Openers \cup Markers) =>
           LET r == sexpr_reader(tokens, SrcLen(src), i)
           IN /\ r.ok
              /\ r.val \in TreeNodes(out.root)
              /\ Within(tokens[i].span, r.val.span)
              /\ tokens[i].tok.kind \in Openers =>
                   Within(tokens[r.next - 1].span, r.val.span)

RECURSIVE NoEmptyNode(_)
NoEmptyNode(t) ==
  t.kind = "Atom" \/
    (Len(t.items) >= 1 /\ \A j \in 1..Len(t.items) : NoEmptyNode(t.items[j]))

C10_ZeroWidthHead ==
  (Done /\ Direct /\ out.errs = <<>> /\ out.root.present) =>
    \A i \in 1..Len(tokens) :
      tokens[i].tok.kind \in Markers =>
        LET r == sexpr_reader(tokens, SrcLen(src), i)
            m == tokens[i].span.start
        IN /\ r.ok
           /\ r.val \in TreeNodes(out.root)
           /\ r.val.items[1].atom.span = Span(m, m)
           /\ r.val.span = Span(m, tokens[r.next - 1].span.end)

\* C10 as amended: the head symbol atom, and the Sexpr that holds it, have
\* the marker token's own span [m, m + len(marker)); the wrapping node has
\* the span [m, e), e being the end of the last token of the wrapped form.
C10_MarkerSpanHead ==
  (Done /\ Direct /\ out.errs = <<>> /\ out.root.present) =>
    \A i \in 1..Len(tokens) :
      tokens[i].tok.kind \in Markers =>
        LET r == sexpr_reader(tokens, SrcLen(src), i)
            m == tokens[i].span.start
        IN /\ r.ok
           /\ r.val \in TreeNodes(out.root)
           /\ r.val.items[1].atom.span = Span(m, m + LexemeLen(tokens[i].tok))
           /\ r.val.items[1].span = Span(m, m + LexemeLen(tokens[i].tok))
           /\ r.val.span = Span(m, tokens[r.next - 1].span.end)

C10_Witness ==
  /\ Done
  /\ src = QuasiSample
  /\ out.errs = <<>>
  /\ \E n \in TreeNodes(out.root) :
       /\ n.kind = "List"
       /\ n.span = Span(7, 10)
       /\ n.items[1].atom = Atom(Sym("unquote-splicing"), Span(7, 9))

\* The alternatives of the Sexpr production, each tried on its own at token
\* i, in the order of the alternation.
Alternatives(toks, eoi, i) ==
  <<variadic(toks, eoi, i), list(toks, eoi, i), list_lit(toks, eoi, i),
    vector(toks, eoi, i), quote(toks, eoi, i), quasiquote(toks, eoi, i),
    unquote(toks, eoi, i), unquote_splice(toks, eoi, i), atom(toks, eoi, i)>>

AtomTokenKinds == {"Ident"} \cup LitKinds

\* The atom a single identifier or literal token reads as.
AtomOfToken(t) ==
  IF t.tok.kind = "Ident" THEN S(t.tok.val)
  ELSE [kind |-> "Atom", atom |-> Lit(t.tok.kind, t.tok.val)]

\* C11: at every token position the Sexpr production returns the result of
\* the first alternative, in the order variadic, list, bracket-list, vector,
\* quote, quasiquote, unquote, unquote-splicing, atom, that succeeds from
\* that same position, and fails when none does; where variadic has taken
\* the identifier and then failed, the form read is the atom that starts at
\* that identifier; where path has taken the identifier and then failed,
\* the atom production reads the symbol of that identifier and consumes that
\* one token; a text of identifier and literal tokens only reads as one atom
\* per token, none skipped.
C11_AlternationRewinds ==
  (Done /\ Direct /\ LexClean(src)) =>
    /\ \A i \in 1..Len(tokens) :
         \A r \in {sexpr_reader(tokens, SrcLen(src), i)} :
           \A alts \in {Alternatives(tokens, SrcLen(src), i)} :
             /\ \A j \in 1..Len(alts) :
                  (alts[j].ok /\ \A l \in 1..(j - 1) : ~alts[l].ok) => r = alts[j]
             /\ (\A j \in 1..Len(alts) : ~alts[j].ok) => ~r.ok
             /\ (~alts[1].ok /\ VariadicStop(tokens, i) > i) =>
                  /\ r.ok
                  /\ r = alts[9]
                  /\ r.val.kind = "Atom"
                  /\ r.val.span.start = tokens[i].span.start
             /\ (~path(tokens, i).ok /\ PathStop(tokens, i) > i) =>
                  /\ AtomKindAt(tokens, i) = Ok(Sym(tokens[i].tok.val), i + 1)
                  /\ ~alts[1].ok => (r.ok /\ StripSpans(r.val) = S(tokens[i].tok.val))
    /\ (\A j \in 1..Len(tokens) : tokens[j].tok.kind \in AtomTokenKinds) =>
         /\ out.errs = <<>>
         /\ StripAll(out.root.sexprs) =
              [j \in 1..Len(tokens) |-> AtomOfToken(tokens[j])]

\* Two identifiers in a row were read: at each, variadic took the
\* identifier, found no ellipsis and failed, and so did path.
C11_Witness ==
  /\ Done
  /\ Direct
  /\ TokenKinds(tokens) = <<"Ident", "Ident">>
  /\ VariadicStop(tokens, 1) = 2
  /\ ~variadic(tokens, SrcLen(src), 1).ok
  /\ PathStop(tokens, 1) = 2
  /\ ~path(tokens, 1).ok
  /\ out.errs = <<>>
  /\ StripAll(out.root.sexprs) = <<S(tokens[1].tok.val), S(tokens[2].tok.val)>>

RECURSIVE Height(_)
\* Nesting depth of a node: 1 for an atom, one more than its deepest child
\* for a list.
Height(n) ==
  IF n.kind = "Atom" THEN 1
  ELSE IF n.items = <<>> THEN 1
  ELSE 1 + CHOOSE h \in {Height(n.items[j]) : j \in 1..Len(n.items)} :
             \A j \in 1..Len(n.items) : Height(n.items[j]) <= h

\* Nesting depth of a successfully read text: that of its deepest form.
Nesting(root) ==
  IF root.sexprs = <<>> THEN 0
  ELSE CHOOSE h \in {Height(root.sexprs[j]) : j \in 1..Len(root.sexprs)} :
         \A j \in 1..Len(root.sexprs) : Height(root.sexprs[j]) <= h

\* The number of tokens from position i on that open a nested form.
NestingTokens(toks, i) ==
  Cardinality({j \in i..Len(toks) : toks[j].tok.kind \in Openers \cup Markers})

\* The steps read still has to take: the lexer items not yet scanned, the
\* return, and the printing of the tree where one is printed first.
StepsLeft ==
  IF pc = "done" THEN 0
  ELSE IF pc = "render" THEN Len(Lexer(Display(tree))) + 2
  ELSE Len(Lexer(src)) - k + 2

\* Every successful Sexpr production at token i, and at the end of the
\* stream, ends past i and within the stream; every repetition ends at or past its start with at most one item
\* per token consumed; an attempt nests no deeper than one more than the
\* opening tokens from i on.
GrammarAdvances ==
  \A i \in 1..(Len(tokens) + 1) :
    /\ \A r \in {sexpr_reader(tokens, SrcLen(src), i)} :
         r.ok => (i < r.next /\ r.next <= Len(tokens) + 1)
    /\ \A m \in {Repeated(tokens, SrcLen(src), i)} :
         /\ i <= m.next
         /\ m.next <= Len(tokens) + 1
         /\ Len(m.items) <= m.next - i
    /\ CallDepth(tokens, SrcLen(src), i) <= 1 + NestingTokens(tokens, i)

\* What read returns: no tree or a tree, and a list of errors; a tree comes
\* with no errors, and reading it nested no deeper than one more than the
\* nesting depth of the text.
ReturnsPair ==
  /\ DOMAIN out = {"root", "errs"}
  /\ out.root.present \in BOOLEAN
  /\ DOMAIN out.errs = 1..Len(out.errs)
  /\ \A j \in 1..Len(out.errs) : out.errs[j].kind \in {"LexError", "ParseError"}
  /\ out.root.present =>
       /\ out.errs = <<>>
       /\ RepeatedDepth(tokens, SrcLen(src), 1) <= 1 + Nesting(out.root)

\* C12: read runs to completion on every input: the number of steps left
\* is a natural number that every step lowers, and until read has returned
\* a step can always be taken, so read returns after finitely many steps;
\* over the token stream of a finished read every successful Sexpr
\* production consumes at least one token, every repetition advances with
\* each item, and the nesting of the grammar's recursion is bounded by the
\* nesting of the input; what read returns is a pair of an optional tree and
\* an error list.
C12_ReadTerminates ==
  /\ [](StepsLeft \in Nat /\ (Done \/ ENABLED Next))
  /\ [][StepsLeft' < StepsLeft]_vars
  /\ [](Done => (GrammarAdvances /\ ReturnsPair))

\* read has returned the tree of a text nested three deep: repetitions ran
\* at the top level and inside a delimited form, there over two items or
\* more, and the recursion went three activations deep.
C12_Witness ==
  /\ Done
  /\ Direct
  /\ out.root.present
  /\ Len(out.root.sexprs) >= 1
  /\ Nesting(out.root) >= 3
  /\ RepeatedDepth(tokens, SrcLen(src), 1) >= 3
  /\ \E i \in 1..Len(tokens) :
       /\ tokens[i].tok.kind \in Openers
       /\ Len(Repeated(tokens, SrcLen(src), i + 1).items) >= 2

====
